---------------------------- MODULE Spec2Model ----------------------------
(***************************************************************************)
(* Model of encontrar_dispositivo.py: the credential negotiator            *)
(* (try_connect), the output parsers and the topology walker               *)
(* (rastrear_ip_hasta_host).                                               *)
(*                                                                         *)
(* Text is a sequence of one-character strings; a Python None that stands  *)
(* where a str is expected is the one-element sequence None, and a None    *)
(* that stands where a dict or a session is expected is the record Nil.    *)
(***************************************************************************)
EXTENDS Naturals, Sequences, FiniteSets

(***************************************************************************)
(* Python values and str methods                                           *)
(***************************************************************************)
None == <<"None">>

Nil == [none |-> TRUE]

SP == " "

TAB == "\t"

NL == "\n"

Whitespace == {SP, TAB, NL}

Digits == {"0", "1", "2", "3", "4", "5", "6", "7", "8", "9"}

UpperChars == <<"A", "B", "C", "D", "E", "F", "G", "H", "I", "J", "K", "L", "M",
                "N", "O", "P", "Q", "R", "S", "T", "U", "V", "W", "X", "Y", "Z">>

LowerChars == <<"a", "b", "c", "d", "e", "f", "g", "h", "i", "j", "k", "l", "m",
                "n", "o", "p", "q", "r", "s", "t", "u", "v", "w", "x", "y", "z">>

\* [0-9a-f] under re.I
HexChars == Digits \cup {"a", "b", "c", "d", "e", "f", "A", "B", "C", "D", "E", "F"}

Range(s) == {s[i] : i \in 1..Len(s)}

Min(S) == CHOOSE x \in S : \A y \in S : x <= y

Max(S) == CHOOSE x \in S : \A y \in S : x >= y

\* str.lower() on one character
LowerChar(c) ==
    IF \E i \in 1..26 : UpperChars[i] = c
    THEN LowerChars[CHOOSE i \in 1..26 : UpperChars[i] = c]
    ELSE c

\* s.lower()
Lower(s) == [i \in 1..Len(s) |-> LowerChar(s[i])]

\* s.replace(c, "")
Remove(s, c) == LET keep(x) == x # c IN SelectSeq(s, keep)

\* s.startswith(p) at offset i (1-based)
MatchAt(s, i, p) ==
    /\ i >= 1
    /\ i + Len(p) - 1 <= Len(s)
    /\ \A k \in 1..Len(p) : s[i + k - 1] = p[k]

StartsWith(s, p) == MatchAt(s, 1, p)

\* p in s
Contains(s, p) == \E i \in 1..(Len(s) + 1) : MatchAt(s, i, p)

\* s.strip()
Strip(s) ==
    LET ink == {i \in 1..Len(s) : s[i] \notin Whitespace}
    IN  IF ink = {} THEN <<>> ELSE SubSeq(s, Min(ink), Max(ink))

\* the n-th smallest element of a set of numbers
Nth(S, n) == CHOOSE x \in S : Cardinality({y \in S : y <= x}) = n

\* the elements of list at the offsets in K, in order
Pick(list, K) == [n \in 1..Cardinality(K) |-> list[Nth(K, n)]]

\* s.splitlines(), the only line break of the model being "\n": a line ends
\* at each "\n" and at the end of the text, and a final "\n" opens no line
SplitLines(s) ==
    LET nls == {i \in 1..Len(s) : s[i] = NL}
        n == IF s = <<>> THEN 0
             ELSE IF s[Len(s)] = NL THEN Cardinality(nls)
             ELSE Cardinality(nls) + 1
    IN  [k \in 1..n |->
            SubSeq(s, IF k = 1 THEN 1 ELSE Nth(nls, k - 1) + 1,
                      IF k <= Cardinality(nls) THEN Nth(nls, k) - 1 ELSE Len(s))]

\* s.split(): the maximal runs of non-whitespace characters
Split(s) ==
    LET starts == {i \in 1..Len(s) :
                      s[i] \notin Whitespace /\ (i = 1 \/ s[i - 1] \in Whitespace)}
        ends == {i \in 1..Len(s) :
                    s[i] \notin Whitespace /\ (i = Len(s) \/ s[i + 1] \in Whitespace)}
    IN  [k \in 1..Cardinality(starts) |-> SubSeq(s, Nth(starts, k), Nth(ends, k))]

(***************************************************************************)
(* Output parsers                                                          *)
(***************************************************************************)
\* normalize_mac_to_dots: strip, lower-case, drop ".", ":" and "-", and
\* accept whatever 12 characters are left
normalize_mac_to_dots(mac_raw) ==
    IF mac_raw = None \/ mac_raw = <<>> THEN None
    ELSE LET s == Remove(Remove(Remove(Lower(Strip(mac_raw)), "."), ":"), "-")
         IN  IF Len(s) # 12 THEN None
             ELSE SubSeq(s, 1, 4) \o <<".">> \o SubSeq(s, 5, 8) \o <<".">> \o SubSeq(s, 9, 12)

\* [0-9a-f]{4}\.[0-9a-f]{4}\.[0-9a-f]{4} matches at offset i
DottedAt(l, i) ==
    /\ i + 13 <= Len(l)
    /\ \A k \in 0..13 : IF k \in {4, 9} THEN l[i + k] = "." ELSE l[i + k] \in HexChars

\* ([0-9a-f]{2}(:|-)){5}[0-9a-f]{2} matches at offset i
OctetsAt(l, i) ==
    /\ i + 16 <= Len(l)
    /\ \A k \in 0..16 : IF k % 3 = 2 THEN l[i + k] \in {":", "-"} ELSE l[i + k] \in HexChars

\* [0-9a-f]{12} matches at offset i
Hex12At(l, i) ==
    /\ i + 11 <= Len(l)
    /\ \A k \in 0..11 : l[i + k] \in HexChars

\* re.search: the leftmost match, or None
ReDotted(l) ==
    LET at == {i \in 1..Len(l) : DottedAt(l, i)}
    IN  IF at = {} THEN None ELSE SubSeq(l, Min(at), Min(at) + 13)

ReOctets(l) ==
    LET at == {i \in 1..Len(l) : OctetsAt(l, i)}
    IN  IF at = {} THEN None ELSE SubSeq(l, Min(at), Min(at) + 16)

ReHex12(l) ==
    LET at == {i \in 1..Len(l) : Hex12At(l, i)}
    IN  IF at = {} THEN None ELSE SubSeq(l, Min(at), Min(at) + 11)

\* one of the three searches of find_mac_in_arp succeeds on the line
ArpLineReturns(line, ip_target) ==
    /\ Contains(line, ip_target)
    /\ \/ ReDotted(line) # None
       \/ ReOctets(line) # None
       \/ ReHex12(Remove(line, SP)) # None

\* ArpLineValue as it would be with the octet search tried first
ArpLineValue_OctetsFirst(line) ==
    IF ReOctets(line) # None THEN normalize_mac_to_dots(ReOctets(line))
    ELSE IF ReDotted(line) # None THEN normalize_mac_to_dots(ReDotted(line))
    ELSE normalize_mac_to_dots(ReHex12(Remove(line, SP)))

\* what find_mac_in_arp returns from such a line: m, else m2, else m3
ArpLineValue(line) ==
    IF ReDotted(line) # None THEN normalize_mac_to_dots(ReDotted(line))
    ELSE IF ReOctets(line) # None THEN normalize_mac_to_dots(ReOctets(line))
    ELSE normalize_mac_to_dots(ReHex12(Remove(line, SP)))

\* find_mac_in_arp: the loop goes on to the next line when a line holds the
\* IP and none of the three searches matches
find_mac_in_arp(arp_output, ip_target) ==
    LET lines == SplitLines(arp_output)
        hits == {i \in 1..Len(lines) : ArpLineReturns(lines[i], ip_target)}
    IN  IF hits = {} THEN None ELSE ArpLineValue(lines[Min(hits)])

\* MacLineReturns as it would be without the test on the number of fields
MacLineReturns_AnyFieldCount(line, mac_normalized) ==
    /\ mac_normalized # None
    /\ mac_normalized # <<>>
    /\ Contains(Lower(line), Lower(mac_normalized))

\* a line find_interface_by_mac returns from
MacLineReturns(line, mac_normalized) ==
    /\ mac_normalized # None
    /\ mac_normalized # <<>>
    /\ Contains(Lower(line), Lower(mac_normalized))
    /\ Len(Split(line)) >= 4

find_interface_by_mac(mac_table_output, mac_normalized) ==
    LET lines == SplitLines(mac_table_output)
        hits == {i \in 1..Len(lines) : MacLineReturns(lines[i], mac_normalized)}
    IN  IF hits = {} THEN None
        ELSE LET parts == Split(lines[Min(hits)]) IN parts[Len(parts)]

S_DeviceID == <<"D", "e", "v", "i", "c", "e", " ", "I", "D">>

S_device_id_colon == <<"d", "e", "v", "i", "c", "e", " ", "i", "d", ":">>

S_IP_address_colon == <<"I", "P", " ", "a", "d", "d", "r", "e", "s", "s", ":">>

S_Port_ID_sp == <<"P", "o", "r", "t", " ", "I", "D", " ">>

S_uptime == <<" ", "u", "p", "t", "i", "m", "e", " ">>

S_hostname == <<"h", "o", "s", "t", "n", "a", "m", "e">>

S_Invalid_input == <<"I", "n", "v", "a", "l", "i", "d", " ", "i", "n", "p", "u", "t">>

\* the offset of the first character at or after i that is not whitespace
\* (Len(l) + 1 when there is none): where a greedy \s* stops
SkipSpace(l, i) ==
    LET ink == {j \in i..Len(l) : l[j] \notin Whitespace}
    IN  IF ink = {} THEN Len(l) + 1 ELSE Min(ink)

\* the longest run of characters of cls that starts at offset i
RunFrom(l, i, cls) ==
    LET stop == {j \in i..Len(l) : l[j] \notin cls}
    IN  SubSeq(l, i, IF stop = {} THEN Len(l) ELSE Min(stop) - 1)

\* the longest run of non-whitespace characters that starts at offset i
WordFrom(l, i) ==
    LET stop == {j \in i..Len(l) : l[j] \in Whitespace}
    IN  SubSeq(l, i, IF stop = {} THEN Len(l) ELSE Min(stop) - 1)

\* group 1 of re.search(r"IP address:\s*([\d\.]+)", l), or None
ReIpAddress(l) ==
    LET ok(i) == /\ MatchAt(l, i, S_IP_address_colon)
                 /\ SkipSpace(l, i + 11) <= Len(l)
                 /\ l[SkipSpace(l, i + 11)] \in Digits \cup {"."}
        at == {i \in 1..Len(l) : ok(i)}
    IN  IF at = {} THEN None
        ELSE RunFrom(l, SkipSpace(l, Min(at) + 11), Digits \cup {"."})

\* group 1 of re.search(r"Port ID .*:\s*(\S+)", l), or None: the greedy .*
\* runs to the last colon that something other than whitespace follows
RePortId(l) ==
    LET colons(i) == {c \in (i + 8)..Len(l) : l[c] = ":" /\ SkipSpace(l, c + 1) <= Len(l)}
        at == {i \in 1..Len(l) : MatchAt(l, i, S_Port_ID_sp) /\ colons(i) # {}}
    IN  IF at = {} THEN None
        ELSE WordFrom(l, SkipSpace(l, Max(colons(Min(at))) + 1))

\* line.split(":", 1)[1].strip() of a line that starts with "device id:"
DeviceIdOf(l) ==
    LET c == Min({i \in 1..Len(l) : l[i] = ":"})
    IN  Strip(SubSeq(l, c + 1, Len(l)))

\* CollectIps as it would be if only the first address were kept
CollectIps_FirstOnly(lines) ==
    LET found(x) == x # None
        all == SelectSeq([i \in 1..Len(lines) |-> ReIpAddress(Strip(lines[i]))], found)
    IN  IF all = <<>> THEN <<>> ELSE <<all[1]>>

\* the ips list: one entry per line that matches, in line order
CollectIps(lines) ==
    LET found(x) == x # None
    IN  SelectSeq([i \in 1..Len(lines) |-> ReIpAddress(Strip(lines[i]))], found)

parse_cdp_int_detail_for_ip(cdp_output) ==
    IF cdp_output = None \/ cdp_output = <<>> \/ ~Contains(cdp_output, S_DeviceID)
    THEN Nil
    ELSE LET lines == SplitLines(cdp_output)
             devs == {i \in 1..Len(lines) :
                         StartsWith(Lower(Strip(lines[i])), S_device_id_colon)}
             ports == {i \in 1..Len(lines) : RePortId(Strip(lines[i])) # None}
             device_id == IF devs = {} THEN None ELSE DeviceIdOf(Strip(lines[Max(devs)]))
             neighbor_port == IF ports = {} THEN None
                              ELSE RePortId(Strip(lines[Max(ports)]))
         IN  IF device_id = None \/ device_id = <<>> THEN Nil
             ELSE [device_id |-> device_id, ips |-> CollectIps(lines),
                   neighbor_port |-> neighbor_port]

\* what get_hostname_from_show_ver returns from one line, None to go on
HostnameOfLine(line) ==
    IF Contains(line, S_uptime) THEN Split(line)[1]
    ELSE IF StartsWith(Lower(line), S_hostname) /\ Len(Split(line)) >= 2
         THEN Split(line)[Len(Split(line))]
         ELSE None

get_hostname_from_show_ver(show_ver) ==
    LET lines == SplitLines(show_ver)
        hits == {i \in 1..Len(lines) : HostnameOfLine(lines[i]) # None}
    IN  IF hits = {} THEN None ELSE HostnameOfLine(lines[Min(hits)])

(***************************************************************************)
(* State                                                                   *)
(***************************************************************************)
VARIABLES
    \* try_connect
    n_pc,           \* "idle", "build", "loop", "enable", "done"
    user_given,     \* try_connect's user_given
    pass_given,     \* try_connect's pass_given
    combos,         \* the candidate list
    n_i,            \* the index in combos of the for loop's next candidate
    n_tried,        \* history: the candidates ConnectHandler was called with
    n_failed,       \* history: those of them ConnectHandler raised for
    n_ret,          \* the value returned: Nil for (None, None), else the session
    \* rastrear_ip_hasta_host
    pc,             \* the walker's position, "idle" outside a trace
    current_host,
    visited_hosts,
    conn,           \* Nil, or the session try_connect returned
    show_ver,
    hostname,
    arp_out,
    mac_found,
    mac_table_out,
    intf,
    cdp_out,
    vecino_info,
    ret,            \* the value returned: Nil for None, else the result dict
    topo,           \* the network: what each host's CDP reports on the port
    opened,         \* the hosts that hold a session not yet disconnected
    dialed,         \* history: the hosts try_connect was called for (the first MaxHops)
    sent,           \* history: the commands sent in the current hop
    \* one call of a parser
    p_pc,           \* "idle", "input", "called", "done"
    p_text,         \* the text argument
    p_arg,          \* the second argument, if any
    p_out,          \* the value returned
    p_again         \* the value returned for p_out as the argument

negVars == <<n_pc, user_given, pass_given, combos, n_i, n_tried, n_failed, n_ret>>

walkVars == <<pc, current_host, visited_hosts, conn, show_ver, hostname, arp_out,
              mac_found, mac_table_out, intf, cdp_out, vecino_info, ret, topo,
              opened, dialed, sent>>

parseVars == <<p_pc, p_text, p_arg, p_out, p_again>>

vars == <<negVars, walkVars, parseVars>>

(***************************************************************************)
(* Credential negotiator: try_connect                                      *)
(***************************************************************************)
COMMON_USERNAMES == <<"cisco", "admin", "cisco123">>

COMMON_PASSWORDS == <<"cisco", "cisco123", "cisco99", "admin">>

\* the usernames and passwords an operator types: the fallback ones and one
\* that is on neither list
UserInputs == Range(COMMON_USERNAMES) \cup {"root"}

PassInputs == Range(COMMON_PASSWORDS) \cup {"toor"}

\* [x for x in list if x != given]
Without(list, given) == LET keep(x) == x # given IN SelectSeq(list, keep)

\* CrossPairs as it would be with the two loops swapped
CrossPairs_PasswordOuter ==
    LET N == Len(COMMON_USERNAMES)
        M == Len(COMMON_PASSWORDS)
    IN  [k \in 1..(N * M) |->
            <<COMMON_USERNAMES[((k - 1) % N) + 1], COMMON_PASSWORDS[((k - 1) \div N) + 1]>>]

\* for u in COMMON_USERNAMES: for p in COMMON_PASSWORDS: the pairs in loop order
CrossPairs ==
    LET N == Len(COMMON_USERNAMES)
        M == Len(COMMON_PASSWORDS)
    IN  [k \in 1..(N * M) |->
            <<COMMON_USERNAMES[((k - 1) \div M) + 1], COMMON_PASSWORDS[((k - 1) % M) + 1]>>]

\* AppendNew as it would be without the "not in combos" test
AppendNew_Unchecked(list, cands) == list \o cands

\* if (u,p) not in combos: combos.append((u,p)), over cands in order: a
\* candidate is appended unless the list, or an earlier candidate, holds it
AppendNew(list, cands) ==
    list \o Pick(cands, {k \in 1..Len(cands) :
                            /\ cands[k] \notin Range(list)
                            /\ \A j \in 1..(k - 1) : cands[j] # cands[k]})

\* the combos list try_connect builds
BuildCombos(ug, pg) ==
    LET given == <<<<ug, pg>>>>
        samePass == Without(COMMON_PASSWORDS, pg)
        sameUser == Without(COMMON_USERNAMES, ug)
        c2 == given \o [k \in 1..Len(samePass) |-> <<ug, samePass[k]>>]
        c3 == c2 \o [k \in 1..Len(sameUser) |-> <<sameUser[k], pg>>]
    IN  AppendNew(c3, CrossPairs)

\* lines 19-25: the candidate list is built
NegBuild ==
    /\ n_pc = "build"
    /\ combos' = BuildCombos(user_given, pass_given)
    /\ n_i' = 1
    /\ n_pc' = "loop"
    /\ UNCHANGED <<user_given, pass_given, n_tried, n_failed, n_ret>>
    /\ UNCHANGED <<walkVars, parseVars>>

\* lines 27-36, 40: ConnectHandler is called with the next candidate and
\* either raises (continue) or returns a session
NegAttempt ==
    /\ n_pc = "loop"
    /\ n_i <= Len(combos)
    /\ n_tried' = Append(n_tried, combos[n_i])
    /\ \/ /\ n_failed' = Append(n_failed, combos[n_i])
          /\ n_i' = n_i + 1
          /\ n_pc' = "loop"
       \/ /\ n_pc' = "enable"
          /\ UNCHANGED <<n_failed, n_i>>
    /\ UNCHANGED <<user_given, pass_given, combos, n_ret>>
    /\ UNCHANGED <<walkVars, parseVars>>

\* EnableResult as it would be if a failed enable() gave the session up
EnableResult_Fatal(c, enabled) ==
    IF enabled THEN [creds |-> c, enabled |-> enabled] ELSE Nil

\* lines 37-39: what try_connect returns once ConnectHandler accepted c,
\* whether enable() succeeded or raised
EnableResult(c, enabled) == [creds |-> c, enabled |-> enabled]

\* lines 37-39: conn.enable() succeeds or raises, and either way the session
\* is returned with the candidate that opened it
NegEnable ==
    /\ n_pc = "enable"
    /\ \E enabled \in BOOLEAN :
          n_ret' = EnableResult(combos[n_i], enabled)
    /\ n_pc' = "done"
    /\ UNCHANGED <<user_given, pass_given, combos, n_i, n_tried, n_failed>>
    /\ UNCHANGED <<walkVars, parseVars>>

\* line 41: the loop ran out of candidates
NegExhausted ==
    /\ n_pc = "loop"
    /\ n_i > Len(combos)
    /\ n_ret' = Nil
    /\ n_pc' = "done"
    /\ UNCHANGED <<user_given, pass_given, combos, n_i, n_tried, n_failed>>
    /\ UNCHANGED <<walkVars, parseVars>>

NegIdle ==
    /\ n_pc = "idle"
    /\ user_given = "" /\ pass_given = ""
    /\ combos = <<>> /\ n_i = 0 /\ n_tried = <<>> /\ n_failed = <<>> /\ n_ret = Nil

(***************************************************************************)
(* The network the walker talks to                                         *)
(***************************************************************************)
\* the longest history of dialed hosts that is kept
MaxHops == 4

HostA == <<"1", ".", "1">>

HostB == <<"1", ".", "2">>

HostC == <<"1", ".", "3">>

Hosts == {HostA, HostB, HostC}

NextHost(h) == IF h = HostA THEN HostB ELSE IF h = HostB THEN HostC ELSE HostA

\* the arguments of rastrear_ip_hasta_host
start_switch == HostA

user == "admin"

pwd == "cisco99"

ip_objetivo == <<"9", ".", "5">>

\* the last character of a host's address, which its outputs carry
HostDigit(h) == <<h[Len(h)]>>

T_IOS == <<"C", "i", "s", "c", "o", " ", "I", "O", "S", "\n">>

T_SW == <<"S", "W">>

T_uptime == <<" ", "u", "p", "t", "i", "m", "e", " ", "i", "s", " ", "1", " ", "d", "a", "y">>

T_arp_other == <<"I", "n", "t", "e", "r", "n", "e", "t", " ", "9", ".", "6", " ", "0", " ", "a", "a", "b", "b", ".", "c", "c", "d", "d", ".", "e", "e", "9", "9", " ", "A", "R", "P", "A", "\n">>

T_arp_pre == <<"I", "n", "t", "e", "r", "n", "e", "t", " ", "9", ".", "5", " ", "0", " ">>

T_arp_post == <<" ", "A", "R", "P", "A">>

T_mac_prefix == <<"a", "a", "b", "b", ".", "c", "c", "d", "d", ".", "e", "e", "0">>

T_other_mac == <<"a", "a", "b", "b", ".", "c", "c", "d", "d", ".", "e", "e", "9", "9">>

T_row_pre == <<" ", "1", " ">>

T_row_mid == <<" ", "D", "Y", "N", "A", "M", "I", "C", " ">>

T_invalid == <<"%", " ", "I", "n", "v", "a", "l", "i", "d", " ", "i", "n", "p", "u", "t", " ", "d", "e", "t", "e", "c", "t", "e", "d">>

T_Gi == <<"G", "i">>

T_Fa == <<"F", "a">>

T_slash1 == <<"/", "1">>

T_nocdp == <<"T", "o", "t", "a", "l", " ", "c", "d", "p", " ", "e", "n", "t", "r", "i", "e", "s", " ", "d", "i", "s", "p", "l", "a", "y", "e", "d", " ", ":", " ", "0">>

T_devid == <<"D", "e", "v", "i", "c", "e", " ", "I", "D", ":", " ", "S", "W">>

T_ipline == <<"I", "P", " ", "a", "d", "d", "r", "e", "s", "s", ":", " ">>

T_portline == <<"P", "o", "r", "t", " ", "I", "D", " ", "(", "o", "u", "t", "g", "o", "i", "n", "g", " ", "p", "o", "r", "t", ")", ":", " ", "G", "i", "0", "/", "1">>

\* what host h shows for itself
NameOf(h) == T_SW \o HostDigit(h)

MacAt(h) == T_mac_prefix \o HostDigit(h)

PortAt(h) == T_Gi \o HostDigit(h) \o T_slash1

AltPortAt(h) == T_Fa \o HostDigit(h) \o T_slash1

\* "show version" on h: with the uptime banner, or without any name
ShowVerOutputs(h) == {T_IOS \o NameOf(h) \o T_uptime, SubSeq(T_IOS, 1, 9)}

\* "show ip arp" on h: with an entry for the target, or without
ArpOutputs(h) == {T_arp_other \o T_arp_pre \o MacAt(h) \o T_arp_post,
                  SubSeq(T_arp_other, 1, Len(T_arp_other) - 1)}

\* "show mac address-table" on h: a table with the MAC, a table without it,
\* the command refused, or nothing
MacOutputs(h) == {T_row_pre \o MacAt(h) \o T_row_mid \o PortAt(h),
                  T_row_pre \o T_other_mac \o T_row_mid \o PortAt(h),
                  T_invalid,
                  <<>>}

\* "show mac-address-table" on h: a table with the MAC, a table without it,
\* or this command refused as well
MacAltOutputs(h) == {T_row_pre \o MacAt(h) \o T_row_mid \o AltPortAt(h),
                     T_row_pre \o T_other_mac \o T_row_mid \o AltPortAt(h),
                     T_invalid}

\* what CDP can report on h's port: no entry, a neighbor without address, a
\* neighbor with one address, a neighbor with two
NeighborOptions(h) ==
    {[entry |-> FALSE, ips |-> <<>>], [entry |-> TRUE, ips |-> <<>>]}
        \cup {[entry |-> TRUE, ips |-> <<x>>] : x \in Hosts}
        \cup {[entry |-> TRUE, ips |-> <<NextHost(h), h>>]}

\* one "IP address:" line per address (a device reports at most two)
IpLines(ips) ==
    IF ips = <<>> THEN <<>>
    ELSE IF Len(ips) = 1 THEN T_ipline \o ips[1] \o <<NL>>
    ELSE T_ipline \o ips[1] \o <<NL>> \o T_ipline \o ips[2] \o <<NL>>

\* "show cdp neighbors <intf> detail" on h
CdpOutput(h) ==
    IF ~topo[h].entry THEN T_nocdp
    ELSE T_devid \o <<"x", NL>> \o IpLines(topo[h].ips) \o T_portline

(***************************************************************************)
(* Topology walker: rastrear_ip_hasta_host                                 *)
(***************************************************************************)
CMD_ARP == "show ip arp"

CMD_MAC == "show mac address-table"

CMD_MAC_ALT == "show mac-address-table"

CMD_VER == "show version"

\* CMD_CDP_INT_FMT as it would be if the interface were left out
CMD_CDP_INT_FMT_Unformatted(i) == [cmd |-> "show cdp neighbors {} detail", arg |-> <<>>]

\* CMD_CDP_INT_FMT.format(intf)
CMD_CDP_INT_FMT(i) == [cmd |-> "show cdp neighbors {} detail", arg |-> i]

Cmd(c) == [cmd |-> c, arg |-> <<>>]

\* what one call of try_connect can return to the walker: (None, None), or a
\* session opened with one of the candidates
try_connect(host, ug, pg) ==
    {Nil} \cup {[host |-> host, creds |-> c] : c \in Range(BuildCombos(ug, pg))}

\* Or as it would be without a fallback
Or_Left(x, y) == x

\* x or y, of str values
Or(x, y) == IF x = None \/ x = <<>> THEN y ELSE x

\* Disconnected as it would be if disconnect() left the session open
Disconnected_Leak == opened

\* conn.disconnect()
Disconnected == opened \ {conn.host}

\* the dict both return statements build
TraceResult == [ip |-> ip_objetivo, device |-> hostname, interface |-> intf,
                mac |-> mac_found]

\* NotFound as it would be if a failed hop handed back what was gathered so far
NotFound_PartialResult == TraceResult

\* return None (lines 106, 115, 124)
NotFound == Nil

\* NoNeighbor as it would be if a neighbor with one address counted as none
NoNeighbor_OffByOne(v) == v = Nil \/ Len(v.ips) <= 1

\* lines 132 and 141-142: the hop is the last one
NoNeighbor(v) == v = Nil \/ v.ips = <<>>

\* NextHop as it would be if it took neigh_ips[-1]
NextHop_Last(v) == v.ips[Len(v.ips)]

\* NextHop as it would be if the walker stayed on the host it is on
NextHop_Stay(v) == current_host

\* line 150: next_host = neigh_ips[0]
NextHop(v) == v.ips[1]

\* a send_command that raises: the exception leaves rastrear_ip_hasta_host
Raises ==
    /\ pc' = "Raised"
    /\ UNCHANGED <<current_host, visited_hosts, conn, show_ver, hostname, arp_out,
                   mac_found, mac_table_out, intf, cdp_out, vecino_info, ret, topo,
                   opened, dialed, sent>>

\* lines 104-106
Connect ==
    /\ pc = "Connecting"
    /\ dialed' = IF Len(dialed) < MaxHops THEN Append(dialed, current_host) ELSE dialed
    /\ sent' = <<>>
    /\ \E r \in try_connect(current_host, user, pwd) :
          IF r = Nil
          THEN /\ conn' = Nil
               /\ ret' = NotFound
               /\ pc' = "Failed"
               /\ UNCHANGED opened
          ELSE /\ conn' = [host |-> r.host]
               /\ opened' = opened \cup {r.host}
               /\ pc' = "ShowVer"
               /\ UNCHANGED ret
    /\ UNCHANGED <<current_host, visited_hosts, show_ver, hostname, arp_out, mac_found,
                   mac_table_out, intf, cdp_out, vecino_info, topo>>
    /\ UNCHANGED <<negVars, parseVars>>

\* lines 108-109
SendShowVer ==
    /\ pc = "ShowVer"
    /\ \/ /\ \E out \in ShowVerOutputs(conn.host) :
                /\ show_ver' = out
                /\ hostname' = Or(get_hostname_from_show_ver(out), current_host)
          /\ sent' = Append(sent, Cmd(CMD_VER))
          /\ pc' = "Resolving"
          /\ UNCHANGED <<current_host, visited_hosts, conn, arp_out, mac_found,
                         mac_table_out, intf, cdp_out, vecino_info, ret, topo, opened,
                         dialed>>
       \/ Raises
    /\ UNCHANGED <<negVars, parseVars>>

\* lines 111-115
SendArp ==
    /\ pc = "Resolving"
    /\ \/ /\ \E out \in ArpOutputs(conn.host) :
                LET found == find_mac_in_arp(out, ip_objetivo)
                IN  /\ arp_out' = out
                    /\ mac_found' = found
                    /\ IF found = None
                       THEN /\ opened' = Disconnected
                            /\ ret' = NotFound
                            /\ pc' = "Failed"
                       ELSE /\ pc' = "LookingUpPort"
                            /\ UNCHANGED <<opened, ret>>
          /\ sent' = Append(sent, Cmd(CMD_ARP))
          /\ UNCHANGED <<current_host, visited_hosts, conn, show_ver, hostname,
                         mac_table_out, intf, cdp_out, vecino_info, topo, dialed>>
       \/ Raises
    /\ UNCHANGED <<negVars, parseVars>>

\* NeedsAlt as it would be if only an empty output called for the fallback
NeedsAlt_OnlyWhenEmpty(out) == out = <<>>

\* line 118: not mac_table_out or "Invalid input" in mac_table_out
NeedsAlt(out) == out = <<>> \/ Contains(out, S_Invalid_input)

\* lines 117-118
SendMac ==
    /\ pc = "LookingUpPort"
    /\ \/ /\ \E out \in MacOutputs(conn.host) :
                /\ mac_table_out' = out
                /\ pc' = IF NeedsAlt(out)
                         THEN "LookingUpPortAlt"
                         ELSE "FindingInterface"
          /\ sent' = Append(sent, Cmd(CMD_MAC))
          /\ UNCHANGED <<current_host, visited_hosts, conn, show_ver, hostname, arp_out,
                         mac_found, intf, cdp_out, vecino_info, ret, topo, opened, dialed>>
       \/ Raises
    /\ UNCHANGED <<negVars, parseVars>>

\* line 119
SendMacAlt ==
    /\ pc = "LookingUpPortAlt"
    /\ \/ /\ \E out \in MacAltOutputs(conn.host) : mac_table_out' = out
          /\ sent' = Append(sent, Cmd(CMD_MAC_ALT))
          /\ pc' = "FindingInterface"
          /\ UNCHANGED <<current_host, visited_hosts, conn, show_ver, hostname, arp_out,
                         mac_found, intf, cdp_out, vecino_info, ret, topo, opened, dialed>>
       \/ Raises
    /\ UNCHANGED <<negVars, parseVars>>

\* lines 121-124
FindInterface ==
    /\ pc = "FindingInterface"
    /\ LET found == find_interface_by_mac(mac_table_out, mac_found)
       IN  /\ intf' = found
           /\ IF found = None
              THEN /\ opened' = Disconnected
                   /\ ret' = NotFound
                   /\ pc' = "Failed"
              ELSE /\ pc' = "DiscoveringNeighbor"
                   /\ UNCHANGED <<opened, ret>>
    /\ UNCHANGED <<current_host, visited_hosts, conn, show_ver, hostname, arp_out,
                   mac_found, mac_table_out, cdp_out, vecino_info, topo, dialed, sent>>
    /\ UNCHANGED <<negVars, parseVars>>

\* lines 126-127
SendCdp ==
    /\ pc = "DiscoveringNeighbor"
    /\ \/ /\ cdp_out' = CdpOutput(conn.host)
          /\ vecino_info' = parse_cdp_int_detail_for_ip(CdpOutput(conn.host))
          /\ sent' = Append(sent, CMD_CDP_INT_FMT(intf))
          /\ pc' = "Releasing"
          /\ UNCHANGED <<current_host, visited_hosts, conn, show_ver, hostname, arp_out,
                         mac_found, mac_table_out, intf, ret, topo, opened, dialed>>
       \/ Raises
    /\ UNCHANGED <<negVars, parseVars>>

\* line 129
Disconnect ==
    /\ pc = "Releasing"
    /\ opened' = Disconnected
    /\ pc' = "Deciding"
    /\ UNCHANGED <<current_host, visited_hosts, conn, show_ver, hostname, arp_out,
                   mac_found, mac_table_out, intf, cdp_out, vecino_info, ret, topo,
                   dialed, sent>>
    /\ UNCHANGED <<negVars, parseVars>>

\* lines 131-152: no neighbor, or a neighbor without address, ends the trace
\* with the result; otherwise the first address is the next host
Decide ==
    /\ pc = "Deciding"
    /\ IF NoNeighbor(vecino_info)
       THEN /\ ret' = TraceResult
            /\ pc' = "Terminal"
            /\ UNCHANGED current_host
       ELSE /\ current_host' = NextHop(vecino_info)
            /\ pc' = "Connecting"
            /\ UNCHANGED ret
    /\ UNCHANGED <<visited_hosts, conn, show_ver, hostname, arp_out, mac_found,
                   mac_table_out, intf, cdp_out, vecino_info, topo, opened, dialed, sent>>
    /\ UNCHANGED <<negVars, parseVars>>

WalkIdle ==
    /\ pc = "idle"
    /\ current_host = None /\ visited_hosts = {} /\ conn = Nil
    /\ show_ver = None /\ hostname = None /\ arp_out = None /\ mac_found = None
    /\ mac_table_out = None /\ intf = None /\ cdp_out = None /\ vecino_info = Nil
    /\ ret = Nil /\ topo = <<>> /\ opened = {} /\ dialed = <<>> /\ sent = <<>>

ParseIdle ==
    /\ p_pc = "idle"
    /\ p_text = None /\ p_arg = None /\ p_out = None /\ p_again = None

\* lines 100-101, in a network of three hosts
Init ==
    /\ pc = "Connecting"
    /\ current_host = start_switch
    /\ visited_hosts = {}
    /\ conn = Nil
    /\ show_ver = None /\ hostname = None /\ arp_out = None /\ mac_found = None
    /\ mac_table_out = None /\ intf = None /\ cdp_out = None /\ vecino_info = Nil
    /\ ret = Nil
    /\ topo \in [Hosts -> UNION {NeighborOptions(h) : h \in Hosts}]
    /\ \A h \in Hosts : topo[h] \in NeighborOptions(h)
    /\ opened = {}
    /\ dialed = <<>>
    /\ sent = <<>>
    /\ NegIdle
    /\ ParseIdle

Next ==
    \/ Connect
    \/ SendShowVer
    \/ SendArp
    \/ SendMac
    \/ SendMacAlt
    \/ FindInterface
    \/ SendCdp
    \/ Disconnect
    \/ Decide

Spec == Init /\ [][Next]_vars

\* the while loop (lines 103-152) keeps running: every step of the walker
\* moves pc, and a walker that has not ended can always take one, so weak
\* fairness of Next is weak fairness of "pc moves"
Progress ==
    /\ pc \notin {"idle", "Terminal", "Failed", "Raised"}
    /\ pc' \in {"Connecting", "ShowVer", "Resolving", "LookingUpPort", "LookingUpPortAlt",
                 "FindingInterface", "DiscoveringNeighbor", "Releasing", "Deciding",
                 "Terminal", "Failed", "Raised"}
    /\ pc' # pc

FairSpec == Spec /\ WF_pc(Progress)

InitNeg ==
    /\ n_pc = "build"
    /\ user_given \in UserInputs
    /\ pass_given \in PassInputs
    /\ combos = <<>>
    /\ n_i = 0
    /\ n_tried = <<>>
    /\ n_failed = <<>>
    /\ n_ret = Nil
    /\ WalkIdle
    /\ ParseIdle

NextNeg ==
    \/ NegBuild
    \/ NegAttempt
    \/ NegEnable
    \/ NegExhausted

SpecNeg == InitNeg /\ [][NextNeg]_vars

(***************************************************************************)
(* One call of normalize_mac_to_dots, and one more on what it returned     *)
(***************************************************************************)
M_body == <<"a", "a", "b", "b", "c", "c", "d", "d", "e", "e", "0", "f", "1">>

\* s.upper()
Upper(s) ==
    [i \in 1..Len(s) |->
        IF \E k \in 1..26 : LowerChars[k] = s[i]
        THEN UpperChars[CHOOSE k \in 1..26 : LowerChars[k] = s[i]]
        ELSE s[i]]

\* body with sep after every n characters but the last
WithSep(body, n, sep) ==
    [i \in 1..(Len(body) + ((Len(body) - 1) \div n)) |->
        IF i % (n + 1) = 0 THEN sep ELSE body[i - (i \div (n + 1))]]

\* pairs of characters split by ":" and "-" in turn
Mixed(body) ==
    LET c == WithSep(body, 2, ":")
    IN  [i \in 1..Len(c) |-> IF i % 6 = 0 THEN "-" ELSE c[i]]

\* the strings handed to normalize_mac_to_dots: 11, 12 or 13 characters, with
\* or without a character that is no hex digit, in either case, in each
\* surface form, bare or with whitespace around
MacInputs ==
    LET bodies == {SubSeq(M_body, 1, n) : n \in 11..13}
        tainted == bodies \cup {[b EXCEPT ![1] = "g"] : b \in bodies}
        cased == tainted \cup {Upper(b) : b \in tainted}
        formed == cased \cup {WithSep(b, 4, ".") : b \in cased}
                        \cup {WithSep(b, 2, ":") : b \in cased}
                        \cup {WithSep(b, 2, "-") : b \in cased}
                        \cup {WithSep(b, 4, SP) : b \in cased}
                        \cup {Mixed(b) : b \in cased}
    IN  formed \cup {<<SP>> \o f \o <<SP, NL>> : f \in formed} \cup {<<>>, None}

InitMac ==
    /\ p_pc = "input"
    /\ p_text \in MacInputs
    /\ p_arg = None
    /\ p_out = None
    /\ p_again = None
    /\ NegIdle
    /\ WalkIdle

MacNormalize ==
    /\ p_pc = "input"
    /\ p_out' = normalize_mac_to_dots(p_text)
    /\ p_pc' = "called"
    /\ UNCHANGED <<p_text, p_arg, p_again>>
    /\ UNCHANGED <<negVars, walkVars>>

MacNormalizeAgain ==
    /\ p_pc = "called"
    /\ p_again' = normalize_mac_to_dots(p_out)
    /\ p_pc' = "done"
    /\ UNCHANGED <<p_text, p_arg, p_out>>
    /\ UNCHANGED <<negVars, walkVars>>

NextMac ==
    \/ MacNormalize
    \/ MacNormalizeAgain

SpecMac == InitMac /\ [][NextMac]_vars

(***************************************************************************)
(* One call of find_mac_in_arp                                             *)
(***************************************************************************)
\* the most lines an ARP text of the model has
MaxArpLines == 3

A_dotted == <<"9", ".", "5", " ", "a", "a", "b", "b", ".", "c", "c", "d", "d", ".", "e", "e", "0", "1">>

A_octets == <<"9", ".", "5", " ", "A", "A", ":", "B", "B", ":", "C", "C", "-", "D", "D", "-", "E", "E", "-", "0", "2">>

A_spaced == <<"9", ".", "5", " ", "a", "a", "b", "b", " ", "c", "c", "d", "d", " ", "e", "e", "0", "3">>

A_incomplete == <<"9", ".", "5", " ", "I", "n", "c", "o", "m", "p", "l", "e", "t", "e">>

A_other == <<"9", ".", "6", " ", "a", "a", "b", "b", ".", "c", "c", "d", "d", ".", "e", "e", "0", "5">>

A_both == <<"9", ".", "5", " ", "a", "a", ":", "b", "b", ":", "c", "c", ":", "d", "d", ":", "e", "e", ":", "0", "6", " ", "a", "a", "b", "b", ".", "c", "c", "d", "d", ".", "e", "e", "0", "7">>

A_longer == <<"9", ".", "5", "0", " ", "a", "a", "b", "b", ".", "c", "c", "d", "d", ".", "e", "e", "0", "8">>

A_tabbed == <<"9", ".", "5", " ", "a", "a", "b", "b", "c", "c", "\t", "d", "d", "e", "e", "0", "9">>

\* the lines an ARP text of the model is made of
ArpLines == {A_dotted, A_octets, A_spaced, A_incomplete, A_other, A_both, A_longer,
             A_tabbed}

\* "\n".join(lines)
RECURSIVE JoinLines(_)
JoinLines(lines) ==
    IF lines = <<>> THEN <<>>
    ELSE IF Len(lines) = 1 THEN lines[1]
    ELSE lines[1] \o <<NL>> \o JoinLines(Tail(lines))

ArpTexts == {JoinLines(ls) : ls \in UNION {[1..n -> ArpLines] : n \in 0..MaxArpLines}}

InitArp ==
    /\ p_pc = "input"
    /\ p_text \in ArpTexts
    /\ p_arg \in {ip_objetivo, <<"9", ".", "6">>}
    /\ p_out = None
    /\ p_again = None
    /\ NegIdle
    /\ WalkIdle

ArpFind ==
    /\ p_pc = "input"
    /\ p_out' = find_mac_in_arp(p_text, p_arg)
    /\ p_pc' = "called"
    /\ UNCHANGED <<p_text, p_arg, p_again>>
    /\ UNCHANGED <<negVars, walkVars>>

NextArp == ArpFind

SpecArp == InitArp /\ [][NextArp]_vars

(***************************************************************************)
(* Properties of the walker                                                *)
(***************************************************************************)
Ended == pc \in {"Terminal", "Failed", "Raised"}

\* the decision is about to send the walker to a host it has dialed before
Revisit ==
    /\ pc = "Deciding"
    /\ vecino_info # Nil
    /\ vecino_info.ips # <<>>
    /\ vecino_info.ips[1] \in Range(dialed)

\* C1: once neighbor discovery yields as first neighbor IP a host already
\* dialed in this trace, the trace eventually ends, and ends without a
\* TraceResult.
C1_CycleEndsWithoutResult == Revisit ~> (pc \in {"Failed", "Raised"} /\ ret = Nil)

\* C2: whenever the walker has ended, by a result, by a failure or by a
\* command that raised, and whenever it is about to dial a host, no session
\* is open.
C2_SessionClosedOnEveryExit == (Ended \/ pc = "Connecting") => opened = {}

\* the step fails the negotiation (step 1), the ARP lookup (step 3) or the
\* MAC-table lookup (step 4)
StepFails ==
    \/ pc = "Connecting" /\ pc' # pc /\ conn' = Nil
    \/ pc = "Resolving" /\ pc' # "Raised" /\ pc' # pc /\ mac_found' = None
    \/ pc = "FindingInterface" /\ pc' # pc /\ intf' = None

\* C3: a failed negotiation, ARP lookup or MAC-table lookup ends the trace with
\* no result at that very step and nothing happens after the end; a result
\* exists only in Terminal, where there is one, and it is set once, by the
\* deciding step of the last hop.
FailureEndsTrace == StepFails => (pc' = "Failed" /\ ret' = Nil)

NothingAfterEnd == pc \in {"Failed", "Terminal"} => UNCHANGED vars

ResultSetOnce == ret' # ret => (ret = Nil /\ pc = "Deciding" /\ pc' = "Terminal")

C3_AllOrNothing ==
    /\ [](ret # Nil <=> pc = "Terminal")
    /\ [][FailureEndsTrace]_vars
    /\ [][NothingAfterEnd]_vars
    /\ [][ResultSetOnce]_vars

C3_Witness ==
    /\ pc = "Failed"
    /\ Len(dialed) >= 2
    /\ mac_found = None
    /\ ret = Nil

\* the neighbor-detail parse returned no neighbor, or one without address
ParsedNoNeighborIp == vecino_info = Nil \/ Len(vecino_info.ips) = 0

\* C4: the deciding step of a hop ends the trace in Terminal exactly when the
\* neighbor-detail parse returned no neighbor or a neighbor with no IP, and
\* the result then carries the target IP and this hop's hostname, interface
\* and MAC.
DecidesByNeighborIp ==
    (pc = "Deciding" /\ pc' # pc) =>
        /\ (pc' = "Terminal") <=> ParsedNoNeighborIp
        /\ (pc' = "Connecting") <=> ~ParsedNoNeighborIp

C4_TerminalIffNoNeighborIp ==
    /\ [][DecidesByNeighborIp]_vars
    /\ [](pc = "Terminal" =>
            /\ ParsedNoNeighborIp
            /\ ret = [ip |-> ip_objetivo, device |-> hostname, interface |-> intf,
                      mac |-> mac_found]
            /\ mac_found = find_mac_in_arp(arp_out, ip_objetivo)
            /\ intf = find_interface_by_mac(mac_table_out, mac_found))

C4_Witness ==
    /\ pc = "Terminal"
    /\ vecino_info # Nil
    /\ vecino_info.ips = <<>>
    /\ ret # Nil

\* C5: a hop whose neighbor has addresses is followed by dialing the first
\* address the device reported, and the result describes the host dialed
\* last: its name (or address), its port and the MAC its ARP table holds.
DialsFirstNeighborIp ==
    (pc = "Deciding" /\ pc' = "Connecting") =>
        /\ topo[current_host].ips # <<>>
        /\ current_host' = topo[current_host].ips[1]

C5_FirstNeighborThenLastHop ==
    /\ [][DialsFirstNeighborIp]_vars
    /\ [](pc = "Terminal" =>
            /\ conn.host = current_host
            /\ ret.device \in {NameOf(current_host), current_host}
            /\ ret.interface \in {PortAt(current_host), AltPortAt(current_host)}
            /\ ret.mac = MacAt(current_host))

C5_Witness ==
    /\ pc = "Terminal"
    /\ Len(dialed) >= 2
    /\ Len(topo[dialed[1]].ips) = 2
    /\ current_host # dialed[1]
    /\ ret.device = NameOf(current_host)

\* C6: a trace ends in one of two ways only, with a result or with "not
\* found": no error leaves rastrear_ip_hasta_host.
C6_ErrorsCollapseToNotFound ==
    Ended => \/ pc = "Terminal" /\ ret # Nil
             \/ pc = "Failed" /\ ret = Nil

(***************************************************************************)
(* Properties of the negotiator                                            *)
(***************************************************************************)
NoRepeat(seq) == \A i, j \in 1..Len(seq) : i # j => seq[i] # seq[j]

NTimesM == Len(COMMON_USERNAMES) * Len(COMMON_PASSWORDS)

\* C7, as claimed: at most N*M+2 pairs are attempted, none twice.
C7_AtMostNMPlus2 == Len(n_tried) <= NTimesM + 2 /\ NoRepeat(n_tried)

\* C7, amended: at most N*M+N+M+1 pairs are attempted, none twice.
C7_AtMostNMPlusNPlusMPlus1 ==
    /\ Len(n_tried) <= NTimesM + Len(COMMON_USERNAMES) + Len(COMMON_PASSWORDS) + 1
    /\ NoRepeat(n_tried)

C7_Witness ==
    /\ n_pc = "done"
    /\ Len(n_tried) = NTimesM + Len(COMMON_USERNAMES) + Len(COMMON_PASSWORDS) + 1

\* the order of candidates the claim describes
ExpectedOrder(ug, pg) ==
    LET N == Len(COMMON_USERNAMES)
        M == Len(COMMON_PASSWORDS)
        otherPass(x) == x[2] # pg
        otherUser(x) == x[1] # ug
        first == <<<<ug, pg>>>>
        second == SelectSeq([j \in 1..M |-> <<ug, COMMON_PASSWORDS[j]>>], otherPass)
        third == SelectSeq([i \in 1..N |-> <<COMMON_USERNAMES[i], pg>>], otherUser)
        cross == [k \in 1..(N * M) |->
                    <<COMMON_USERNAMES[((k - 1) \div M) + 1],
                      COMMON_PASSWORDS[((k - 1) % M) + 1]>>]
        fresh(x) == x \notin Range(first \o second \o third)
    IN  first \o second \o third \o SelectSeq(cross, fresh)

\* C8: the candidates attempted are a prefix of the described order; the
\* loop goes on only while every attempt failed; the session returned is that
\* of the last candidate attempted, all before it having failed; and no
\* session is returned exactly when every candidate was attempted and failed.
C8_OrderAndShortCircuit ==
    LET exp == ExpectedOrder(user_given, pass_given)
    IN  n_pc # "build" =>
          /\ Len(n_tried) <= Len(exp)
          /\ n_tried = SubSeq(exp, 1, Len(n_tried))
          /\ Len(n_failed) <= Len(n_tried)
          /\ n_failed = SubSeq(n_tried, 1, Len(n_failed))
          /\ n_pc = "loop" => n_failed = n_tried
          /\ n_pc = "enable" => n_tried = Append(n_failed, combos[n_i])
          /\ n_pc = "done" =>
                IF n_ret = Nil
                THEN n_failed = exp
                ELSE n_tried = Append(n_failed, n_ret.creds)

C8_Witness ==
    /\ n_pc = "done"
    /\ n_ret # Nil
    /\ user_given \notin Range(COMMON_USERNAMES)
    /\ Len(n_tried) > Len(COMMON_USERNAMES) + Len(COMMON_PASSWORDS) + 1
    /\ n_failed # <<>>

(***************************************************************************)
(* Properties of the parsers                                               *)
(***************************************************************************)
\* the input with ".", ":", "-" and whitespace removed, lower-cased
Cleaned(raw) ==
    LET keep(x) == x \notin {".", ":", "-"} \cup Whitespace
    IN  Lower(SelectSeq(raw, keep))

\* three groups of four, dot-separated
Grouped(c) == SubSeq(c, 1, 4) \o <<".">> \o SubSeq(c, 5, 8) \o <<".">> \o SubSeq(c, 9, 12)

\* C9: normalize_mac_to_dots returns a value exactly when the input, with
\* separators and whitespace removed and lower-cased, is 12 hexadecimal
\* characters, and the value is those characters in three dot-separated
\* groups of four; every other input yields None; normalizing the value again
\* returns the same value.
C9_NormalizeMac ==
    /\ p_pc \in {"called", "done"} =>
          LET c == IF p_text = None THEN <<>> ELSE Cleaned(p_text)
          IN  IF Len(c) = 12 /\ \A i \in 1..Len(c) : c[i] \in HexChars
              THEN p_out = Grouped(c)
              ELSE p_out = None
    /\ (p_pc = "done" /\ p_out # None) => p_again = p_out

\* the MAC the claim reads from a line: dotted, else octets, else 12 hex
\* digits in a row once the characters in gone are removed; None if none
MacOnLine(line, gone) ==
    LET keep(x) == x \notin gone
        packed == SelectSeq(line, keep)
    IN  IF ReDotted(line) # None THEN Cleaned(ReDotted(line))
        ELSE IF ReOctets(line) # None THEN Cleaned(ReOctets(line))
        ELSE IF ReHex12(packed) # None THEN Cleaned(ReHex12(packed))
        ELSE None

Dotted(m) == IF m = None THEN None ELSE Grouped(m)

\* C10, as claimed: the first line that contains the target IP decides: the
\* result is the MAC on that line (whitespace removed for the third form),
\* None if that line has none or no line contains the IP.
C10_FirstIpLineDecides ==
    p_pc = "called" =>
        LET lines == SplitLines(p_text)
            ipLines == {i \in 1..Len(lines) : Contains(lines[i], p_arg)}
        IN  IF ipLines = {} THEN p_out = None
            ELSE p_out = Dotted(MacOnLine(lines[Min(ipLines)], Whitespace))

\* C10, amended: the first line that contains the target IP and holds a
\* MAC (spaces removed for the third form) decides; the result is None if
\* there is no such line.
C10_FirstIpLineWithMacDecides ==
    p_pc = "called" =>
        LET lines == SplitLines(p_text)
            macLines == {i \in 1..Len(lines) :
                            /\ Contains(lines[i], p_arg)
                            /\ MacOnLine(lines[i], {SP}) # None}
        IN  IF macLines = {} THEN p_out = None
            ELSE p_out = Dotted(MacOnLine(lines[Min(macLines)], {SP}))

\* the first line with the IP holds no MAC, a later one does, and it is read
C10_Witness ==
    /\ p_pc = "called"
    /\ p_out # None
    /\ LET lines == SplitLines(p_text)
           ipLines == {i \in 1..Len(lines) : Contains(lines[i], p_arg)}
       IN  /\ ipLines # {}
           /\ MacOnLine(lines[Min(ipLines)], {SP}) = None

(***************************************************************************)
(* One call of find_interface_by_mac                                       *)
(***************************************************************************)
\* the most lines a MAC-table text of the model has
MaxMacLines == 3

I_row == <<" ", "1", " ", "a", "a", "b", "b", ".", "c", "c", "d", "d", ".", "e", "e", "0", "1", " ", "D", "Y", "N", "A", "M", "I", "C", " ", "G", "i", "0", "/", "1">>

I_upper == <<"1", " ", "A", "A", "B", "B", ".", "C", "C", "D", "D", ".", "E", "E", "0", "1", " ", "D", "Y", "N", "A", "M", "I", "C", " ", "G", "i", "0", "/", "2", " ">>

I_short == <<"a", "a", "b", "b", ".", "c", "c", "d", "d", ".", "e", "e", "0", "1", " ", "D", "Y", "N", "A", "M", "I", "C", " ", "G", "i", "0", "/", "3">>

I_other == <<"1", " ", "a", "a", "b", "b", ".", "c", "c", "d", "d", ".", "e", "e", "9", "9", " ", "D", "Y", "N", "A", "M", "I", "C", " ", "G", "i", "0", "/", "4">>

I_tabs == <<"1", "\t", "a", "a", "b", "b", ".", "c", "c", "d", "d", ".", "e", "e", "0", "1", "\t", "S", "T", "A", "T", "I", "C", "\t", "F", "a", "0", "/", "5">>

I_bare == <<"a", "a", "b", "b", ".", "c", "c", "d", "d", ".", "e", "e", "0", "1">>

\* the lines a MAC-table text of the model is made of: rows of four fields
\* with the MAC in either case, split by spaces or tabs, a row of three
\* fields, a row for another MAC, the MAC alone
MacTableLines == {I_row, I_upper, I_short, I_other, I_tabs, I_bare}

MacTableTexts ==
    {JoinLines(ls) : ls \in UNION {[1..n -> MacTableLines] : n \in 0..MaxMacLines}}

\* the MAC handed to find_interface_by_mac: canonical, upper-case, empty, None
MacArgs == {I_bare, Upper(I_bare), <<>>, None}

InitIntf ==
    /\ p_pc = "input"
    /\ p_text \in MacTableTexts
    /\ p_arg \in MacArgs
    /\ p_out = None
    /\ p_again = None
    /\ NegIdle
    /\ WalkIdle

IntfFind ==
    /\ p_pc = "input"
    /\ p_out' = find_interface_by_mac(p_text, p_arg)
    /\ p_pc' = "called"
    /\ UNCHANGED <<p_text, p_arg, p_again>>
    /\ UNCHANGED <<negVars, walkVars>>

NextIntf == IntfFind

SpecIntf == InitIntf /\ [][NextIntf]_vars

\* the number of whitespace-separated fields of a line
FieldCount(line) ==
    Cardinality({i \in 1..Len(line) :
                    line[i] \notin Whitespace /\ (i = 1 \/ line[i - 1] \in Whitespace)})

\* the last whitespace-separated field of a line that has one
LastField(line) ==
    LET s == Strip(line)
        ws == {i \in 1..Len(s) : s[i] \in Whitespace}
    IN  IF ws = {} THEN s ELSE SubSeq(s, Max(ws) + 1, Len(s))

\* the line contains the MAC, whatever the case of either
HoldsMac(line, mac) ==
    /\ mac # None
    /\ mac # <<>>
    /\ Contains(Lower(line), Lower(mac))

\* C11: find_interface_by_mac returns the last whitespace-separated field of
\* a line (the first one) that contains the MAC, case-insensitively, and has
\* at least four whitespace-separated fields; a line with fewer than four
\* fields is never the source of the result even if it contains the MAC; the
\* result is None when no line qualifies or the MAC is empty.
C11_LastFieldOfQualifyingRow ==
    p_pc = "called" =>
        LET lines == SplitLines(p_text)
            rows == {i \in 1..Len(lines) :
                        HoldsMac(lines[i], p_arg) /\ FieldCount(lines[i]) >= 4}
        IN  IF rows = {} THEN p_out = None
            ELSE p_out = LastField(lines[Min(rows)])

\* a line of three fields with the MAC comes first and is passed over for a
\* later row of four
C11_Witness ==
    /\ p_pc = "called"
    /\ p_out # None
    /\ LET lines == SplitLines(p_text)
       IN  /\ Len(lines) >= 2
           /\ HoldsMac(lines[1], p_arg)
           /\ FieldCount(lines[1]) < 4
           /\ p_out # LastField(lines[1])

(***************************************************************************)
(* One call of parse_cdp_int_detail_for_ip                                 *)
(***************************************************************************)
\* the most lines a neighbor-detail text of the model has
MaxCdpLines == 3

D_dev == <<"D", "e", "v", "i", "c", "e", " ", "I", "D", ":", " ", "S", "W", "2">>

D_devLower == <<"d", "e", "v", "i", "c", "e", " ", "i", "d", ":", " ", "s", "w", "3">>

D_devEmpty == <<"D", "e", "v", "i", "c", "e", " ", "I", "D", ":">>

D_marker == <<"N", "e", "i", "g", "h", "b", "o", "r", " ", "D", "e", "v", "i", "c", "e", " ", "I", "D", " ", "f", "o", "l", "l", "o", "w", "s">>

D_ip1 == <<" ", " ", "I", "P", " ", "a", "d", "d", "r", "e", "s", "s", ":", " ", "1", ".", "2">>

D_ip2 == <<"I", "P", " ", "a", "d", "d", "r", "e", "s", "s", ":", " ", "1", ".", "3">>

D_port1 == <<"I", "n", "t", "e", "r", "f", "a", "c", "e", ":", " ", "G", "i", "0", "/", "1", ",", " ", " ", "P", "o", "r", "t", " ", "I", "D", " ", "(", "o", "u", "t", "g", "o", "i", "n", "g", " ", "p", "o", "r", "t", ")", ":", " ", "G", "i", "0", "/", "2">>

D_port2 == <<"P", "o", "r", "t", " ", "I", "D", " ", "(", "o", "u", "t", "g", "o", "i", "n", "g", " ", "p", "o", "r", "t", ")", ":", " ", "F", "a", "0", "/", "3">>

D_total == <<"T", "o", "t", "a", "l", " ", "c", "d", "p", " ", "e", "n", "t", "r", "i", "e", "s", " ", "d", "i", "s", "p", "l", "a", "y", "e", "d", " ", ":", " ", "0">>

\* the lines a neighbor-detail text of the model is made of: a device id,
\* one in lower case, one without value, the marker inside a line, two
\* addresses, two ports, and a line with none of these
CdpLines == {D_dev, D_devLower, D_devEmpty, D_marker, D_ip1, D_ip2, D_port1, D_port2,
             D_total}

CdpTexts == {JoinLines(ls) : ls \in UNION {[1..n -> CdpLines] : n \in 0..MaxCdpLines}}

InitCdp ==
    /\ p_pc = "input"
    /\ p_text \in CdpTexts \cup {None}
    /\ p_arg = None
    /\ p_out = None
    /\ p_again = None
    /\ NegIdle
    /\ WalkIdle

CdpParse ==
    /\ p_pc = "input"
    /\ p_out' = parse_cdp_int_detail_for_ip(p_text)
    /\ p_pc' = "called"
    /\ UNCHANGED <<p_text, p_arg, p_again>>
    /\ UNCHANGED <<negVars, walkVars>>

NextCdp == CdpParse

SpecCdp == InitCdp /\ [][NextCdp]_vars

\* the lines of the text, each without the whitespace around it
CdpStripped(text) ==
    IF text = None THEN <<>>
    ELSE [i \in 1..Len(SplitLines(text)) |-> Strip(SplitLines(text)[i])]

\* the value a "device id:" line gives: what follows its first colon
DeviceIdValue(l) ==
    Strip(SubSeq(l, Min({i \in 1..Len(l) : l[i] = ":"}) + 1, Len(l)))

\* the offsets of the lines that begin with "device id:" in any case, of
\* those with an address, of those with a port
DeviceIdLines(ls) == {i \in 1..Len(ls) : StartsWith(Lower(ls[i]), S_device_id_colon)}

IpLinesOf(ls) == {i \in 1..Len(ls) : ReIpAddress(ls[i]) # None}

PortLinesOf(ls) == {i \in 1..Len(ls) : RePortId(ls[i]) # None}

\* all addresses in encounter order, and the port of the last port line
CarriesIpsAndPort(out, ls) ==
    /\ Len(out.ips) = Cardinality(IpLinesOf(ls))
    /\ \A k \in 1..Len(out.ips) : out.ips[k] = ReIpAddress(ls[Nth(IpLinesOf(ls), k)])
    /\ out.neighbor_port = IF PortLinesOf(ls) = {} THEN None
                           ELSE RePortId(ls[Max(PortLinesOf(ls))])

\* C12, as claimed: parse_cdp_int_detail_for_ip returns None whenever the text
\* lacks "Device ID" or no line yields a device id, even if there are address
\* lines; otherwise it returns the device id, all neighbor addresses in
\* encounter order and the port of the last "Port ID" line (None if none).
C12_NoneUnlessSomeDeviceId ==
    p_pc = "called" =>
        LET ls == CdpStripped(p_text)
            yields == {i \in DeviceIdLines(ls) : DeviceIdValue(ls[i]) # <<>>}
        IN  IF p_text = None \/ ~Contains(p_text, S_DeviceID) \/ yields = {}
            THEN p_out = Nil
            ELSE /\ p_out # Nil
                 /\ p_out.device_id \in {DeviceIdValue(ls[i]) : i \in yields}
                 /\ CarriesIpsAndPort(p_out, ls)

\* C12, amended: the last line that begins with "device id:" decides: the
\* result is None whenever the text lacks "Device ID", no line begins with
\* "device id:", or the last such line gives an empty value; otherwise it
\* holds that line's value as device id, all neighbor addresses in encounter
\* order and the port of the last "Port ID" line (None if none).
C12_LastDeviceIdLineDecides ==
    p_pc = "called" =>
        LET ls == CdpStripped(p_text)
            devs == DeviceIdLines(ls)
        IN  IF \/ p_text = None
               \/ ~Contains(p_text, S_DeviceID)
               \/ devs = {}
               \/ DeviceIdValue(ls[Max(devs)]) = <<>>
            THEN p_out = Nil
            ELSE /\ p_out # Nil
                 /\ p_out.device_id = DeviceIdValue(ls[Max(devs)])
                 /\ CarriesIpsAndPort(p_out, ls)

\* a device id, two addresses in the order of the text, and nothing after
C12_Witness ==
    /\ p_pc = "called"
    /\ p_out # Nil
    /\ Len(p_out.ips) = 2
    /\ p_out.ips[1] # p_out.ips[2]
    /\ p_out.neighbor_port = None

(***************************************************************************)
(* One call of get_hostname_from_show_ver                                  *)
(***************************************************************************)
\* the most lines a show-version text of the model has
MaxVerLines == 3

V_up == <<"S", "W", "1", " ", "u", "p", "t", "i", "m", "e", " ", "i", "s", " ", "1", " ", "d", "a", "y">>

V_upIndented == <<" ", " ", "S", "W", "4", " ", "u", "p", "t", "i", "m", "e", " ", "i", "s", " ", "3">>

V_host == <<"h", "o", "s", "t", "n", "a", "m", "e", " ", "S", "W", "2">>

V_hostCap == <<"H", "o", "s", "t", "n", "a", "m", "e", " ", "S", "W", "3", " ", "x">>

V_hostBare == <<"h", "o", "s", "t", "n", "a", "m", "e">>

V_ios == <<"C", "i", "s", "c", "o", " ", "I", "O", "S", " ", "S", "o", "f", "t", "w", "a", "r", "e">>

\* the lines a show-version text of the model is made of: the uptime banner,
\* one that is indented, a hostname line, one capitalised with a third
\* token, one without a name, and a line with none of these
VerLines == {V_up, V_upIndented, V_host, V_hostCap, V_hostBare, V_ios}

VerTexts == {JoinLines(ls) : ls \in UNION {[1..n -> VerLines] : n \in 0..MaxVerLines}}

InitVer ==
    /\ p_pc = "input"
    /\ p_text \in VerTexts
    /\ p_arg = None
    /\ p_out = None
    /\ p_again = None
    /\ NegIdle
    /\ WalkIdle

VerHostname ==
    /\ p_pc = "input"
    /\ p_out' = get_hostname_from_show_ver(p_text)
    /\ p_pc' = "called"
    /\ UNCHANGED <<p_text, p_arg, p_again>>
    /\ UNCHANGED <<negVars, walkVars>>

NextVer == VerHostname

SpecVer == InitVer /\ [][NextVer]_vars

\* the first whitespace-separated token of a line that has one
FirstField(line) ==
    LET s == Strip(line)
        ws == {i \in 1..Len(s) : s[i] \in Whitespace}
    IN  IF ws = {} THEN s ELSE SubSeq(s, 1, Min(ws) - 1)

\* C13: get_hostname_from_show_ver prefers the uptime banner: whenever some
\* line contains " uptime ", the result is the first token of the first such
\* line, wherever the "hostname" lines are; only when no line contains
\* " uptime " is the result the last token of a line that begins with
\* "hostname" and names a host; it is None when there is neither.
C13_UptimeBannerPreferred ==
    p_pc = "called" =>
        LET lines == SplitLines(p_text)
            ups == {i \in 1..Len(lines) : Contains(lines[i], S_uptime)}
            names == {i \in 1..Len(lines) :
                         /\ StartsWith(Lower(lines[i]), S_hostname)
                         /\ FieldCount(lines[i]) >= 2}
        IN  IF ups # {} THEN p_out = FirstField(lines[Min(ups)])
            ELSE IF names # {} THEN p_out \in {LastField(lines[i]) : i \in names}
            ELSE p_out = None

(***************************************************************************)
(* More properties of the walker                                           *)
(***************************************************************************)
\* C14: the visited set is empty at the start, holds the current host from
\* the start of each hop on, and no host is processed twice: at every state
\* the hosts dialed so far are all different and are exactly the members of
\* the visited set.
C14_VisitedSetTracksHops ==
    /\ NoRepeat(dialed)
    /\ visited_hosts = Range(dialed)

\* C15: at every state at most one session is open, the open session is the
\* one of the current hop's host, and no session is open when the connection
\* attempts of a hop begin: the session of the hop before is closed by then.
C15_OneSessionPerHop ==
    /\ Cardinality(opened) <= 1
    /\ opened # {} => (conn # Nil /\ conn.host = current_host /\ opened = {current_host})
    /\ pc = "Connecting" => opened = {}

\* the second hop holds its session, the first hop's session is closed
C15_Witness ==
    /\ pc = "LookingUpPort"
    /\ Len(dialed) = 2
    /\ dialed[1] # current_host
    /\ opened = {current_host}

\* the command sent last in the current hop
LastSent == sent[Len(sent)]

\* the output is empty or signals an unsupported command
Unusable(out) == out = <<>> \/ Contains(out, S_Invalid_input)

\* the alternate command is sent only right after the primary one, only on
\* an unusable primary output, and only if it was not sent before in the hop
AltOnlyOnUnusablePrimary ==
    (sent' # sent /\ sent' # <<>> /\ sent'[Len(sent')] = Cmd(CMD_MAC_ALT)) =>
        /\ sent # <<>>
        /\ LastSent = Cmd(CMD_MAC)
        /\ Unusable(mac_table_out)
        /\ Cmd(CMD_MAC_ALT) \notin Range(sent)
        /\ mac_table_out' \in MacAltOutputs(conn.host)

\* the interface lookup runs on a usable primary output, or else on the
\* output of the alternate command, sent just before
LookupOnRightOutput ==
    (pc = "FindingInterface" /\ pc' # pc) =>
        /\ sent # <<>>
        /\ \/ LastSent = Cmd(CMD_MAC) /\ ~Unusable(mac_table_out)
           \/ LastSent = Cmd(CMD_MAC_ALT) /\ mac_table_out \in MacAltOutputs(conn.host)
        /\ intf' = find_interface_by_mac(mac_table_out, mac_found)

\* a usable primary output without the MAC fails the trace, and no
\* alternate command is sent
MissingMacFailsWithoutAlt ==
    (pc = "FindingInterface" /\ pc' # pc /\ sent # <<>> /\ LastSent = Cmd(CMD_MAC)
        /\ ~Contains(Lower(mac_table_out), Lower(mac_found))) =>
        /\ pc' = "Failed"
        /\ ret' = Nil
        /\ sent' = sent

\* C16: in a hop the alternate MAC-table command is sent if and only if the
\* output of the primary one is empty or signals an unsupported command, at
\* most once, and the interface lookup then runs on the alternate output; a
\* usable primary output that lacks the MAC triggers no alternate command and
\* fails the trace.
C16_AlternateMacTableCommand ==
    /\ [][AltOnlyOnUnusablePrimary]_vars
    /\ [][LookupOnRightOutput]_vars
    /\ [][MissingMacFailsWithoutAlt]_vars
    /\ [](Cardinality({i \in 1..Len(sent) : sent[i] = Cmd(CMD_MAC_ALT)}) <= 1)

\* the primary command was refused and the port was read from the output of
\* the alternate one
C16_Witness ==
    /\ pc = "DiscoveringNeighbor"
    /\ sent # <<>>
    /\ LastSent = Cmd(CMD_MAC_ALT)
    /\ intf = AltPortAt(current_host)

\* the place of a command in a hop
StepOf(c) ==
    IF c = Cmd(CMD_VER) THEN 1
    ELSE IF c = Cmd(CMD_ARP) THEN 2
    ELSE IF c = Cmd(CMD_MAC) THEN 3
    ELSE IF c = Cmd(CMD_MAC_ALT) THEN 4
    ELSE 5

\* the commands of the hop so far: show version, show ip arp, the MAC table
\* (and its alternate), the neighbor detail, none left out and none early
InHopOrder ==
    /\ sent # <<>> => StepOf(sent[1]) = 1
    /\ \A i \in 1..(Len(sent) - 1) :
          \/ StepOf(sent[i + 1]) = StepOf(sent[i]) + 1
          \/ StepOf(sent[i]) = 3 /\ StepOf(sent[i + 1]) = 5

\* a command goes to the session of the host dialed for this hop; the MAC
\* table is asked for a MAC that was resolved, the neighbor detail for the
\* interface that was found
CommandHasItsInput ==
    (sent' # sent /\ sent' # <<>>) =>
        LET c == sent'[Len(sent')]
        IN  /\ sent' = Append(sent, c)
            /\ conn # Nil
            /\ conn.host = current_host
            /\ conn.host \in opened
            /\ StepOf(c) = 3 => (mac_found # None
                                    /\ mac_found = find_mac_in_arp(arp_out, ip_objetivo))
            /\ StepOf(c) = 5 => (intf # None
                                    /\ intf = find_interface_by_mac(mac_table_out, mac_found)
                                    /\ c = [cmd |-> "show cdp neighbors {} detail",
                                            arg |-> intf])

\* the decision comes after the neighbor detail
DecisionComesLast ==
    (pc = "Deciding" /\ pc' # pc) => (sent # <<>> /\ StepOf(LastSent) = 5)

\* C17: in every hop the steps come in the order connection, show version,
\* show ip arp, MAC table, neighbor detail, decision; no command is sent
\* before an earlier one, the MAC-table command is sent only after a MAC was
\* resolved, and the neighbor-detail command only after an interface was
\* found, and for that interface.
C17_StepsInFixedOrder ==
    /\ []InHopOrder
    /\ [][CommandHasItsInput]_vars
    /\ [][DecisionComesLast]_vars

\* a second hop that sent all five commands
C17_Witness ==
    /\ pc = "Deciding"
    /\ Len(dialed) = 2
    /\ Len(sent) = 5
    /\ sent[5].arg = intf

(***************************************************************************)
(* More properties of the negotiator                                       *)
(***************************************************************************)
\* the step after a candidate authenticated returns its session, whatever
\* enable() did, and tries no other candidate
EnableNeverAborts ==
    (n_pc = "enable" /\ n_pc' # n_pc) =>
        /\ n_pc' = "done"
        /\ n_ret' # Nil
        /\ n_ret'.creds = combos[n_i]
        /\ n_tried' = n_tried
        /\ n_failed' = n_failed

\* C18: when a candidate authenticates and enable() fails, the negotiation
\* is not aborted and no further candidate is tried: the session of that
\* candidate is returned, with the same credentials as when enable()
\* succeeds.
C18_EnableFailureSwallowed ==
    /\ [][EnableNeverAborts]_vars
    /\ []((n_pc = "done" /\ n_ret # Nil) =>
            /\ n_tried # <<>>
            /\ n_ret.creds = n_tried[Len(n_tried)]
            /\ Len(n_failed) = Len(n_tried) - 1
            /\ n_ret.creds \notin Range(n_failed))

\* the third candidate authenticated, enable() failed, the session is returned
C18_Witness ==
    /\ n_pc = "done"
    /\ n_ret # Nil
    /\ ~n_ret.enabled
    /\ Len(n_tried) = 3
    /\ n_ret.creds = combos[3]

(***************************************************************************)
(* Properties of a hop without a hostname, and of termination              *)
(***************************************************************************)
\* the show-version output names no host: no " uptime " and no "hostname"
Nameless(text) == ~Contains(text, S_uptime) /\ ~Contains(Lower(text), S_hostname)

\* a show-version output without a name does not end the hop: the walker
\* goes on to the ARP table, with the dialed address as the name
NamelessHopGoesOn ==
    (pc = "ShowVer" /\ pc' # pc /\ pc' # "Raised") =>
        /\ pc' = "Resolving"
        /\ ret' = ret
        /\ Nameless(show_ver') => hostname' = current_host

\* C19: when the show-version output of a hop yields no hostname the trace is
\* not aborted: the hop goes on to ARP resolution, and if the hop is the last
\* one the result's device is the address dialed for that hop: the start host
\* in the first hop, the neighbor address in a later one.
C19_DialedAddressAsName ==
    /\ [][NamelessHopGoesOn]_vars
    /\ []((pc = "Terminal" /\ Nameless(show_ver)) =>
            /\ ret.device = conn.host
            /\ Len(dialed) = 1 => ret.device = start_switch
            /\ (Len(dialed) > 1 /\ Len(dialed) < MaxHops) =>
                  /\ ret.device = dialed[Len(dialed)]
                  /\ ret.device = topo[dialed[Len(dialed) - 1]].ips[1])

\* the second hop is the last one, its device has no name, and the result
\* carries the neighbor address
C19_Witness ==
    /\ pc = "Terminal"
    /\ Len(dialed) = 2
    /\ Nameless(show_ver)
    /\ ret.device = current_host
    /\ current_host # start_switch

\* the hosts on the chain of first neighbor addresses that starts at h, h
\* included, cut after n hosts
RECURSIVE ChainFrom(_, _)
ChainFrom(h, n) ==
    IF n = 0 THEN <<>>
    ELSE IF topo[h].ips = <<>> THEN <<h>>
    ELSE <<h>> \o ChainFrom(topo[h].ips[1], n - 1)

Chain == ChainFrom(start_switch, Cardinality(Hosts) + 1)

\* the chain from the start host ends before it comes back to a host
AcyclicFromStart == NoRepeat(Chain)

\* C20: where the chain of first neighbor addresses from the start host has
\* no cycle, and every command returns (a trace in which one raises ends in
\* Raised and is outside the claim), the trace ends, in Terminal or Failed,
\* and by then has processed no host twice and no more hosts than the chain
\* has.
C20_AcyclicTraceTerminates ==
    /\ AcyclicFromStart ~> (pc \in {"Terminal", "Failed", "Raised"})
    /\ [](AcyclicFromStart => (NoRepeat(dialed) /\ Len(dialed) <= Len(Chain)))

\* a chain of three hosts walked to its end
C20_Witness ==
    /\ pc = "Terminal"
    /\ AcyclicFromStart
    /\ Len(Chain) = 3
    /\ Len(dialed) = 3

=============================================================================
